---- MODULE Spec2Model ----
(***************************************************************************)
(* Model of the two postprocessing nodes of src/Florence.py,               *)
(* Florence2Postprocess.apply and Florence2PostprocessAll.apply.           *)
(*                                                                         *)
(* Numbers.  The generation backend hands over box and polygon coordinates *)
(* as floats; the nodes convert them with int().  A coordinate is kept     *)
(* here in half-pixel units (the value v stands for the number v/2), so    *)
(* that int() is a real truncation.  Pixel indices, image extents and the  *)
(* returned geometry are plain integers.                                   *)
(*                                                                         *)
(* Strings are sequences of one-character strings.                         *)
(*                                                                         *)
(* A mask is [rows, cols, ones, polys]: a rows x cols grid that is 1 at    *)
(* the <<row, column>> pairs of ones and inside the polygons of polys.     *)
(* PIL's rasterisation of a polygon is outside the repository, so a filled *)
(* polygon is kept as the polygon itself.                                  *)
(***************************************************************************)
EXTENDS Integers, Sequences, FiniteSets, TLC

VARIABLES F_BBOXES, index, node, out

\* The Florence2 node: its task, fill_mask switch and FLORENCE2 input, the
\* parsed answer of the generation backend, the node's own fields and the
\* outcome of its apply.
VARIABLES task, fill_mask, FLORENCE2, answer, florence2, applied

\* The LoadFlorence2Model node: its fields and the outcome of its last load.
VARIABLES loader, loaded

florence2Vars == <<task, fill_mask, FLORENCE2, answer, florence2, applied>>

loaderVars == <<loader, loaded>>

vars == <<F_BBOXES, index, node, out, florence2Vars, loaderVars>>

----------------------------------------------------------------------------
(* Bounds of the model                                                     *)

MaxWidth == 3

MaxHeight == 2

MaxRegions == 2

MaxPoints == 3

(* Program constant: side of the fallback mask of the string path.         *)
FallbackSize == 512

----------------------------------------------------------------------------
(* Python built-ins used by the nodes                                      *)

\* The number k as a coordinate value.
Num(k) == 2 * k

\* int(v) of a non-negative float: truncation.
int(v) == v \div 2

Min2(a, b) == IF a <= b THEN a ELSE b

Max2(a, b) == IF a >= b THEN a ELSE b

\* min(...) and max(...) of a non-empty collection.
SetMin(S) == CHOOSE m \in S : \A e \in S : m <= e

SetMax(S) == CHOOSE m \in S : \A e \in S : m >= e

\* seq[0::2] and seq[1::2] as the collections min() and max() range over.
EvenSlice(s) == {s[i] : i \in {j \in 1..Len(s) : j % 2 = 1}}

OddSlice(s) == {s[i] : i \in {j \in 1..Len(s) : j % 2 = 0}}

\* s.startswith(p)
StartsWith(s, p) == Len(p) <= Len(s) /\ SubSeq(s, 1, Len(p)) = p

\* s.removeprefix(p)
removeprefix(s, p) == IF StartsWith(s, p) THEN SubSeq(s, Len(p) + 1, Len(s)) ELSE s

\* sub in s
Contains(sub, s) ==
    \E i \in 0..(Len(s) - Len(sub)) : SubSeq(s, i + 1, i + Len(sub)) = sub

EndMarker == <<"<", "/", "s", ">">>

Separator == <<",", " ">>

----------------------------------------------------------------------------
(* Masks and results                                                       *)

\* np.zeros((height, width)) / Image.new('RGB', (width, height), 'black')
ZeroMask(height, width) ==
    [rows |-> height, cols |-> width, ones |-> {}, polys |-> {}]

\* The slice filled with both ends included.
FillSliceClosed(mask, y1, y2, x1, x2) ==
    [mask EXCEPT !.ones = @ \cup
        {<<r, c>> \in (0..(mask.rows - 1)) \X (0..(mask.cols - 1)) :
            y1 <= r /\ r <= y2 /\ x1 <= c /\ c <= x2}]

\* mask[y1:y2, x1:x2] = 1 for non-negative integer slice limits
FillSlice(mask, y1, y2, x1, x2) ==
    [mask EXCEPT !.ones = @ \cup
        {<<r, c>> \in (0..(mask.rows - 1)) \X (0..(mask.cols - 1)) :
            y1 <= r /\ r < y2 /\ x1 <= c /\ c < x2}]

\* draw.polygon(polygon, outline='white', fill='white')
DrawPolygon(mask, polygon) == [mask EXCEPT !.polys = @ \cup {polygon}]

\* The codes with the two image extents taken for each other.
LocStringSwapped(x1, y1, x2, y2, width, height) ==
    << <<"loc", (x1 * 999) \div height>>,  <<"loc", (y1 * 999) \div width>>,
       <<"loc", (x2 * 999) \div height>>,  <<"loc", (y2 * 999) \div width>> >>

\* f"<loc_{..}><loc_{..}><loc_{..}><loc_{..}>" as the sequence of its four
\* <loc_N> tokens
LocString(x1, y1, x2, y2, width, height) ==
    << <<"loc", (x1 * 999) \div width>>,  <<"loc", (y1 * 999) \div height>>,
       <<"loc", (x2 * 999) \div width>>,  <<"loc", (y2 * 999) \div height>> >>

Return(mask, label, loc_string, width, height, x, y) ==
    [raised |-> "", mask |-> mask, label |-> label, loc_string |-> loc_string,
     width |-> width, height |-> height, x |-> x, y |-> y]

\* An exception leaving apply: no value is returned.
Raise(exc) ==
    [raised |-> exc, mask |-> ZeroMask(0, 0), label |-> <<>>, loc_string |-> <<>>,
     width |-> 0, height |-> 0, x |-> 0, y |-> 0]

NoOutput == Raise("not called")

\* The string path with the label stripped like a region's label.
StringReturnStripped(s) ==
    Return(ZeroMask(FallbackSize, FallbackSize), removeprefix(s, EndMarker),
           <<>>, 0, 0, 0, 0)

\* The degenerate return of both nodes for a string input.
StringReturn(s) ==
    Return(ZeroMask(FallbackSize, FallbackSize), s, <<>>, 0, 0, 0, 0)

----------------------------------------------------------------------------
(* Box normalisation                                                       *)

\* Every box read as [x1, y1, x2, y2] from its first four coordinates.
BoxBoundsFirstFour(bbox) ==
    [x1 |-> int(bbox[1]), y1 |-> int(bbox[2]),
     x2 |-> int(bbox[3]), y2 |-> int(bbox[4])]

\* The (x1, y1, x2, y2) a box of 4 or 8 coordinates is read as.
BoxBounds(bbox) ==
    IF Len(bbox) = 4
    THEN [x1 |-> int(bbox[1]), y1 |-> int(bbox[2]),
          x2 |-> int(bbox[3]), y2 |-> int(bbox[4])]
    ELSE [x1 |-> int(SetMin(EvenSlice(bbox))), y1 |-> int(SetMin(OddSlice(bbox))),
          x2 |-> int(SetMax(EvenSlice(bbox))), y2 |-> int(SetMax(OddSlice(bbox)))]

\* The bounds read off a polygon's flat coordinate list.
PolygonBounds(polygon) ==
    [x1 |-> int(SetMin(EvenSlice(polygon))), y1 |-> int(SetMin(OddSlice(polygon))),
     x2 |-> int(SetMax(EvenSlice(polygon))), y2 |-> int(SetMax(OddSlice(polygon)))]

\* len(np.array(polygon).reshape(-1, 2))
NumPoints(polygon) == Len(polygon) \div 2

----------------------------------------------------------------------------
(* Florence2Postprocess.apply                                              *)

\* The range test with the length itself let through.
InRangeInclusive(idx, n) == idx <= n

\* index < len(...)
InRange(idx, n) == idx < n

SingleBox(F, idx, width, height, mask) ==
    IF InRange(idx, Len(F.labels))
    THEN IF idx >= Len(F.bboxes)
         THEN Raise("IndexError")
         ELSE LET bbox  == F.bboxes[idx + 1]
                  label == removeprefix(F.labels[idx + 1], EndMarker)
                  b     == IF Len(bbox) \in {4, 8}
                           THEN BoxBounds(bbox)
                           ELSE [x1 |-> 0, y1 |-> 0, x2 |-> 0, y2 |-> 0]
              IN  Return(FillSlice(mask, b.y1, b.y2, b.x1, b.x2), label,
                         LocString(b.x1, b.y1, b.x2, b.y2, width, height),
                         b.x2 - b.x1 + 1, b.y2 - b.y1 + 1, b.x1, b.y1)
    ELSE Return(mask, <<>>, LocString(0, 0, 0, 0, width, height), 1, 1, 0, 0)

SinglePolygon(F, idx, width, height, mask) ==
    IF Len(F.polygons) = 0
    THEN Raise("IndexError")
    ELSE IF InRange(idx, Len(F.polygons[1]))
    THEN LET polygon == F.polygons[1][idx + 1]
         IN  IF idx >= Len(F.polygons[1]) \/ Len(F.labels) = 0
             THEN Raise("IndexError")
             ELSE IF Len(polygon) % 2 = 1
             THEN Raise("ValueError")
             ELSE IF Len(polygon) = 0
             THEN Raise("ValueError")
             ELSE LET label == F.labels[1]
                      image == IF NumPoints(polygon) < 3
                               THEN ZeroMask(height, width)
                               ELSE DrawPolygon(ZeroMask(height, width), polygon)
                      b     == PolygonBounds(polygon)
                  IN  Return(image, label,
                             LocString(b.x1, b.y1, b.x2, b.y2, width, height),
                             b.x2 - b.x1 + 1, b.y2 - b.y1 + 1, b.x1, b.y1)
    ELSE Return(mask, <<>>, LocString(0, 0, 0, 0, width, height), 1, 1, 0, 0)

Florence2Postprocess_apply(F, idx) ==
    IF F.kind = "str"
    THEN StringReturn(F.text)
    ELSE LET width  == F.width
             height == F.height
             mask   == ZeroMask(height, width)
         IN  IF F.kind = "bboxes"
             THEN SingleBox(F, idx, width, height, mask)
             ELSE SinglePolygon(F, idx, width, height, mask)

----------------------------------------------------------------------------
(* Florence2PostprocessAll.apply                                           *)

\* The running bounds started at the origin instead of the far corner.
InitialAccOrigin(width, height) ==
    [raised |-> "", mask |-> ZeroMask(height, width), label |-> <<>>,
     x1_c |-> 0, y1_c |-> 0, x2_c |-> 0, y2_c |-> 0]

\* The loop state before the first region.
InitialAcc(width, height) ==
    [raised |-> "", mask |-> ZeroMask(height, width), label |-> <<>>,
     x1_c |-> width, y1_c |-> height, x2_c |-> 0, y2_c |-> 0]

\* if new_label not in label: (idx > 0: label += ", "); label += new_label
AddLabel(label, new_label, idx) ==
    IF ~Contains(new_label, label)
    THEN (IF idx > 0 THEN label \o Separator ELSE label) \o new_label
    ELSE label

\* One iteration of the loop over F_BBOXES["bboxes"].
BoxStep(F, idx, acc) ==
    IF idx >= Len(F.labels)
    THEN [acc EXCEPT !.raised = "IndexError"]
    ELSE LET bbox  == F.bboxes[idx + 1]
             label == AddLabel(acc.label, removeprefix(F.labels[idx + 1], EndMarker), idx)
         IN  IF Len(bbox) \in {4, 8}
             THEN LET b == BoxBounds(bbox)
                  IN  [raised |-> "",
                       mask   |-> FillSlice(acc.mask, b.y1, b.y2, b.x1, b.x2),
                       label  |-> label,
                       x1_c   |-> Min2(acc.x1_c, b.x1),
                       y1_c   |-> Min2(acc.y1_c, b.y1),
                       x2_c   |-> Max2(acc.x2_c, b.x2),
                       y2_c   |-> Max2(acc.y2_c, b.y2)]
             ELSE [acc EXCEPT !.label = label]

RECURSIVE BoxLoop(_, _, _)
BoxLoop(F, idx, acc) ==
    IF idx >= Len(F.bboxes) \/ acc.raised # ""
    THEN acc
    ELSE BoxLoop(F, idx + 1, BoxStep(F, idx, acc))

\* One iteration of the loop over F_BBOXES["polygons"][0].
PolygonStep(polygon, acc) ==
    IF Len(polygon) % 2 = 1
    THEN [acc EXCEPT !.raised = "ValueError"]
    ELSE IF NumPoints(polygon) < 3
    THEN acc
    ELSE LET b == PolygonBounds(polygon)
         IN  [acc EXCEPT !.mask = DrawPolygon(@, polygon),
                         !.x1_c = Min2(@, b.x1), !.x2_c = Max2(@, b.x2),
                         !.y1_c = Min2(@, b.y1), !.y2_c = Max2(@, b.y2)]

RECURSIVE PolygonLoop(_, _, _)
PolygonLoop(group, i, acc) ==
    IF i > Len(group) \/ acc.raised # ""
    THEN acc
    ELSE PolygonLoop(group, i + 1, PolygonStep(group[i], acc))

Florence2PostprocessAll_apply(F) ==
    IF F.kind = "str"
    THEN StringReturn(F.text)
    ELSE LET width  == F.width
             height == F.height
             acc    == IF F.kind = "bboxes"
                       THEN BoxLoop(F, 0, InitialAcc(width, height))
                       ELSE IF Len(F.polygons) = 0
                       THEN [InitialAcc(width, height) EXCEPT !.raised = "IndexError"]
                       ELSE PolygonLoop(F.polygons[1], 1, InitialAcc(width, height))
         IN  IF acc.raised # ""
             THEN Raise(acc.raised)
             ELSE Return(acc.mask, acc.label,
                         LocString(acc.x1_c, acc.y1_c, acc.x2_c, acc.y2_c, width, height),
                         acc.x2_c - acc.x1_c + 1, acc.y2_c - acc.y1_c + 1,
                         acc.x1_c, acc.y1_c)

----------------------------------------------------------------------------
(* Inputs: what the generation backend can hand over                       *)

\* Coordinate values inside the image, in steps of half a pixel.
XNums == 0..Num(MaxWidth)

YNums == 0..Num(MaxHeight)

\* Those on whole pixels (f = 0) and those on pixel centres (f = 1).
XGrid(f) == {v \in XNums : v % 2 = f}

YGrid(f) == {v \in YNums : v % 2 = f}

\* A string handed over instead of a structure.
StrResult(s) ==
    [kind |-> "str", text |-> s, width |-> 0, height |-> 0,
     bboxes |-> <<>>, polygons |-> <<>>, labels |-> <<>>]

\* {'bboxes': ..., 'labels': ..., 'width': ..., 'height': ...}
BoxResult(bboxes, labels) ==
    [kind |-> "bboxes", text |-> <<>>, width |-> MaxWidth, height |-> MaxHeight,
     bboxes |-> bboxes, polygons |-> <<>>, labels |-> labels]

\* {'polygons': [group], 'labels': [label], 'width': ..., 'height': ...}
PolygonResult(group, labels) ==
    [kind |-> "polygons", text |-> <<>>, width |-> MaxWidth, height |-> MaxHeight,
     bboxes |-> <<>>, polygons |-> <<group>>, labels |-> labels]

\* Boxes [x1, y1, x2, y2] with x1 <= x2 and y1 <= y2.
Boxes4 ==
    {b \in XNums \X YNums \X XNums \X YNums : b[1] <= b[3] /\ b[2] <= b[4]}

\* Boxes [x1, y1, x2, y2, x3, y3, x4, y4]: four corner points in any order,
\* their x's on one grid and their y's on one grid.
Boxes8(fx, fy) ==
    XGrid(fx) \X YGrid(fy) \X XGrid(fx) \X YGrid(fy)
        \X XGrid(fx) \X YGrid(fy) \X XGrid(fx) \X YGrid(fy)

\* The quadrilateral of a rectangle, from its bottom-left corner round to
\* its top-left corner.
QuadOf(b) == <<b[1], b[4], b[3], b[4], b[3], b[2], b[1], b[2]>>

\* The points of a polygon [x0, y0, x1, y1, ...].
Points(fx, fy) == XGrid(fx) \X YGrid(fy)

RECURSIVE Flatten(_)
Flatten(ps) ==
    IF ps = <<>> THEN <<>> ELSE <<ps[1][1], ps[1][2]>> \o Flatten(Tail(ps))

Labels ==
    {<<>>, <<"a">>, <<"b">>, <<"a", "b">>, EndMarker \o <<"a">>}

\* A few boxes of every coordinate count the nodes distinguish.
MixedBoxes ==
    {<<0, 0, Num(1), Num(1)>>,
     <<Num(1), 0, Num(MaxWidth), Num(MaxHeight)>>,
     QuadOf(<<1, 1, Num(MaxWidth) - 1, Num(MaxHeight) - 1>>),
     <<>>,
     <<Num(1), 0, Num(MaxWidth)>>}

\* A few polygons of up to 3 points.
SomePolygons ==
    {<<>>,
     <<Num(1), Num(1)>>,
     <<0, 0, Num(MaxWidth), Num(MaxHeight)>>,
     <<0, 0, Num(MaxWidth), 0, Num(MaxWidth), Num(MaxHeight)>>}

\* Boxes that are not empty, with all corners on whole pixels or all on
\* pixel centres, and the quadrilaterals of the latter.
SolidBoxes(f) ==
    {b \in Boxes4 : /\ \A i \in 1..4 : b[i] % 2 = f
                    /\ b[1] < b[3] /\ b[2] < b[4]}

GeometryBoxes ==
    SolidBoxes(0) \cup SolidBoxes(1) \cup {QuadOf(b) : b \in SolidBoxes(1)}

\* The box-form result of a sequence of <<box, label>> regions.
BoxResultOf(regions) ==
    BoxResult([i \in 1..Len(regions) |-> regions[i][1]],
              [i \in 1..Len(regions) |-> regions[i][2]])

\* The box-form result of boxes that all carry one label.
BoxResultWith(bboxes, label) ==
    BoxResult(bboxes, [i \in 1..Len(bboxes) |-> label])

\* A string.
IsStrInput(F) ==
    \E s \in Labels \cup {<<"e", "r", "r">>} : F = StrResult(s)

\* Up to MaxRegions labelled regions of mixed shape.
IsLabelledInput(F) ==
    \E k \in 0..MaxRegions :
        \E rs \in [1..k -> MixedBoxes \X Labels] : F = BoxResultOf(rs)

\* One box of 4 coordinates.
IsOneBoxInput(F) ==
    \E b \in Boxes4 : F = BoxResultWith(<<b>>, <<"a">>)

\* One polygon of up to MaxPoints points, or up to MaxRegions polygons out
\* of a few.
IsPolygonInput(F) ==
    \/ \E k \in 0..MaxPoints : \E fx \in {0, 1} : \E fy \in {0, 1} :
          \E ps \in [1..k -> Points(fx, fy)] :
              F = PolygonResult(<<Flatten(ps)>>, <<(<<"a">>)>>)
    \/ \E k \in 0..MaxRegions :
          \E g \in [1..k -> SomePolygons] : F = PolygonResult(g, <<(<<"a">>)>>)

\* Up to MaxRegions boxes that are not empty.
IsGeometryInput(F) ==
    \E k \in 0..MaxRegions :
        \E bs \in [1..k -> GeometryBoxes] : F = BoxResultWith(bs, <<"a">>)

\* One quadrilateral.
IsQuadInput(F) ==
    \E fx \in {0, 1} : \E fy \in {0, 1} :
        \E b \in Boxes8(fx, fy) : F = BoxResultWith(<<b>>, <<"a">>)

----------------------------------------------------------------------------
(* What the nodes hand to each other                                       *)

\* Python's None where a loaded object is expected.
NoObject == [by |-> "None", version |-> "None"]

\* The object a from_pretrained call of the class `by` loads from the path
\* of `version`.
from_pretrained(by, version) == [by |-> by, version |-> version]

\* The fields model, processor and version of LoadFlorence2Model and of
\* Florence2, and of the FLORENCE2 dictionary passed between them (the
\* device is the same everywhere).
Fields(model, processor, version) ==
    [model |-> model, processor |-> processor, version |-> version]

\* __init__ of both classes
NoFields == Fields(NoObject, NoObject, "None")

\* The version choices of the loader.
Versions ==
    {"base", "base-ft", "large", "large-ft", "SD3-Captioner",
     "large-promptgen", "base-promptgen", "cog-large"}

----------------------------------------------------------------------------
(* Florence2.process_image and Florence2.apply                             *)

TASK_OPTIONS ==
    <<"caption", "detailed caption", "more detailed caption",
      "object detection", "dense region caption", "region proposal",
      "caption to phrase grounding", "referring expression segmentation",
      "region to segmentation", "open vocabulary detection",
      "region to category", "region to description", "OCR",
      "OCR with region">>

\* The parsed answer of run_example under the task's prompt: a string, or a
\* dictionary with some of the keys bboxes, labels, polygons, quad_boxes
\* and bboxes_labels (a key that is absent reads as the empty list).
Answer(text, bboxes, labels, polygons, quad_boxes, bboxes_labels) ==
    [text |-> text, bboxes |-> bboxes, labels |-> labels, polygons |-> polygons,
     quad_boxes |-> quad_boxes, bboxes_labels |-> bboxes_labels]

\* A string result.
Str(s) == StrResult(s)

\* A dictionary result {'bboxes' or 'polygons': ..., 'labels': ...} that has
\* no width and height yet.
Dict(kind, regions, labels) ==
    [kind |-> kind, text |-> <<>>, width |-> 0, height |-> 0,
     bboxes |-> IF kind = "bboxes" THEN regions ELSE <<>>,
     polygons |-> IF kind = "polygons" THEN regions ELSE <<>>,
     labels |-> labels]

\* An image: the input image, or what a drawing helper made of it.
Picture(draw, data, fill) == [draw |-> draw, data |-> data, fill |-> fill]

\* None in the place of the preview image.
NoPicture == Picture("None", Str(<<>>), FALSE)

\* The input image.
InputPicture == Picture("input", Str(<<>>), FALSE)

\* zip(a, b) as the indices it visits
Zip(a, b) == 1..Min2(Len(a), Len(b))

\* plot_bbox unpacks every zipped box as x1, y1, x2, y2.
plot_bbox_raises(data) ==
    \E i \in Zip(data.bboxes, data.labels) : Len(data.bboxes[i]) # 4

\* fig_to_pil(plot_bbox(image, data))
plot_bbox(data) == Picture("plot_bbox", data, FALSE)

\* draw_polygons reshapes every zipped polygon to (-1, 2).
draw_polygons_raises(prediction) ==
    \E i \in Zip(prediction.polygons, prediction.labels) :
        \E j \in 1..Len(prediction.polygons[i]) :
            Len(prediction.polygons[i][j]) % 2 = 1

draw_polygons(prediction, fill) == Picture("draw_polygons", prediction, fill)

draw_ocr_bboxes(prediction) == Picture("draw_ocr_bboxes", prediction, FALSE)

\* convert_to_od_format
convert_to_od_format(data) == Dict("bboxes", data.bboxes, data.bboxes_labels)

\* What a call of process_image ends with: a returned pair, a returned None
\* (the end of the function is reached) or an exception.
Pair(results, output_image) ==
    [ends |-> "pair", results |-> results, output_image |-> output_image]

ReturnsNone == [ends |-> "None", results |-> Str(<<>>), output_image |-> NoPicture]

Raises(exc) == [ends |-> exc, results |-> Str(<<>>), output_image |-> NoPicture]

\* The branches that return (result[task_prompt], None).
TextTasks ==
    {"caption", "detailed caption", "more detailed caption",
     "region to category", "region to description"}

\* The branches that plot the boxes of results[task_prompt].
BoxTasks ==
    {"object detection", "dense region caption", "region proposal",
     "caption to phrase grounding"}

\* The branches that draw the polygons of results[task_prompt].
PolygonTasks ==
    {"referring expression segmentation", "region to segmentation"}

process_image(task_prompt, fill, ans) ==
    IF task_prompt \in TextTasks
    THEN Pair(Str(ans.text), NoPicture)
    ELSE IF task_prompt \in BoxTasks
    THEN LET results == Dict("bboxes", ans.bboxes, ans.labels)
         IN  IF plot_bbox_raises(results)
             THEN Raises("ValueError")
             ELSE Pair(results, plot_bbox(results))
    ELSE IF task_prompt \in PolygonTasks
    THEN LET results == Dict("polygons", ans.polygons, ans.labels)
         IN  IF draw_polygons_raises(results)
             THEN Raises("ValueError")
             ELSE Pair(results, draw_polygons(results, fill))
    ELSE IF task_prompt = "open vocabulary detection"
    THEN LET bbox_results == convert_to_od_format(ans)
         IN  IF plot_bbox_raises(bbox_results)
             THEN Raises("ValueError")
             ELSE Pair(bbox_results, plot_bbox(bbox_results))
    ELSE IF task_prompt = "OCR"
    THEN ReturnsNone
    ELSE IF task_prompt = "OCR with region"
    THEN LET output_results == Dict("bboxes", ans.quad_boxes, ans.labels)
         IN  Pair(output_results,
                  draw_ocr_bboxes(Dict("bboxes", ans.quad_boxes, ans.labels)))
    ELSE Pair(Str(<<>>), NoPicture)

\* str(results): the string itself, or the repr of the dictionary.
str(results) ==
    IF results.kind = "str"
    THEN [of |-> "str", text |-> results.text, repr |-> Str(<<>>)]
    ELSE [of |-> "dict", text |-> <<>>, repr |-> results]

\* What a call of Florence2.apply ends with.
Applied(preview, string, results) ==
    [raised |-> "", preview |-> preview, string |-> string, F_BBOXES |-> results]

ApplyRaises(exc) ==
    [raised |-> exc, preview |-> NoPicture, string |-> str(Str(<<>>)),
     F_BBOXES |-> Str(<<>>)]

NotApplied == ApplyRaises("not called")

\* The try block of Florence2.apply on an image of MaxWidth x MaxHeight.
Florence2_apply(task_prompt, fill, ans) ==
    LET r == process_image(task_prompt, fill, ans)
    IN  IF r.ends = "None"
        THEN ApplyRaises("TypeError")
        ELSE IF r.ends # "pair"
        THEN ApplyRaises(r.ends)
        ELSE LET results == IF r.results.kind = "str"
                            THEN r.results
                            ELSE [r.results EXCEPT !.width = MaxWidth,
                                                   !.height = MaxHeight]
                 output_image == IF r.output_image = NoPicture
                                 THEN InputPicture
                                 ELSE r.output_image
             IN  Applied(output_image, str(results), results)

\* unload_model
unload_model(self) == [self EXCEPT !.model = NoObject, !.processor = NoObject]

Florence2Unused ==
    /\ task = "caption"
    /\ fill_mask = FALSE
    /\ FLORENCE2 = NoFields
    /\ answer = Answer(<<>>, <<>>, <<>>, <<>>, <<>>, <<>>)
    /\ florence2 = NoFields
    /\ applied = NotApplied

----------------------------------------------------------------------------
(* LoadFlorence2Model.load                                                 *)

\* What a call of load ends with, and the fields it leaves behind.
Loaded(self) ==
    [raised |-> "", self |-> self,
     FLORENCE2 |-> Fields(self.model, self.processor, self.version)]

LoadRaises(self) == [raised |-> "Exception", self |-> self, FLORENCE2 |-> NoFields]

\* What the caller of load(version) sees.
Outcome(call, version) ==
    [raised |-> call.raised, version |-> version, FLORENCE2 |-> call.FLORENCE2]

NotLoaded == [raised |-> "not called", version |-> "None", FLORENCE2 |-> NoFields]

\* The body of `if self.version != version:`; each *_ok tells whether that
\* from_pretrained call succeeds (TRUE) or raises (FALSE).
reload(self, version, processor_ok, model_ok, model_again_ok, tokenizer_ok) ==
    LET tried == IF processor_ok
                 THEN [self EXCEPT !.processor = from_pretrained("AutoProcessor", version)]
                 ELSE self
    IN  IF processor_ok /\ model_ok
        THEN Loaded([tried EXCEPT !.model = from_pretrained("AutoModelForCausalLM", version),
                                  !.version = version])
        ELSE IF ~model_again_ok
        THEN LoadRaises(tried)
        ELSE LET again == [tried EXCEPT !.model = from_pretrained("AutoModelForCausalLM", version)]
             IN  IF ~tokenizer_ok
                 THEN LoadRaises(again)
                 ELSE Loaded([again EXCEPT !.processor = from_pretrained("AutoTokenizer", version),
                                           !.version = version])

\* load(version); exists is os.path.exists(model_path), download_ok whether
\* snapshot_download succeeds.
load(self, version, exists, download_ok, processor_ok, model_ok, model_again_ok, tokenizer_ok) ==
    IF ~exists /\ ~download_ok
    THEN LoadRaises(self)
    ELSE IF self.version # version
    THEN reload(self, version, processor_ok, model_ok, model_again_ok, tokenizer_ok)
    ELSE Loaded(self)

LoaderUnused ==
    /\ loader = NoFields
    /\ loaded = NotLoaded

----------------------------------------------------------------------------
(* The two nodes as steps of the node graph                                *)

Florence2Postprocess ==
    /\ node = "none"
    /\ \E i \in 0..MaxRegions :
        /\ index' = i
        /\ out' = Florence2Postprocess_apply(F_BBOXES, i)
    /\ node' = "Florence2Postprocess"
    /\ UNCHANGED <<F_BBOXES, florence2Vars, loaderVars>>

Florence2PostprocessAll ==
    /\ node = "none"
    /\ out' = Florence2PostprocessAll_apply(F_BBOXES)
    /\ node' = "Florence2PostprocessAll"
    /\ UNCHANGED <<F_BBOXES, index, florence2Vars, loaderVars>>

Next == Florence2Postprocess \/ Florence2PostprocessAll

NotCalled ==
    /\ index = 0
    /\ node = "none"
    /\ out = NoOutput
    /\ Florence2Unused
    /\ LoaderUnused

Init ==
    /\ \/ IsStrInput(F_BBOXES)
       \/ IsLabelledInput(F_BBOXES)
       \/ IsOneBoxInput(F_BBOXES)
       \/ IsPolygonInput(F_BBOXES)
    /\ NotCalled

Spec == Init /\ [][Next]_vars

InitGeometry ==
    /\ \/ IsGeometryInput(F_BBOXES)
       \/ IsOneBoxInput(F_BBOXES)
    /\ NotCalled

SpecGeometry == InitGeometry /\ [][Florence2PostprocessAll]_vars

InitQuad ==
    /\ \/ IsQuadInput(F_BBOXES)
       \/ IsLabelledInput(F_BBOXES)
    /\ NotCalled

SpecQuad == InitQuad /\ [][Next]_vars

----------------------------------------------------------------------------
(* The Florence2 node in front of the postprocessing nodes                 *)

\* Task strings the node's menu does not list.
UnlistedTasks == {"", "ocr", "segment"}

ListedTasks == {TASK_OPTIONS[i] : i \in 1..Len(TASK_OPTIONS)}

\* Boxes [x1, y1, x2, y2] and quadrilaterals as the backend parses them.
AnswerBoxes ==
    {<<0, 0, Num(1), Num(1)>>, <<1, 1, Num(MaxWidth) - 1, Num(MaxHeight) - 1>>}

AnswerLabels == {<<>>, <<"a">>, EndMarker \o <<"a">>}

\* The answers of a backend that succeeds on the task.
IsTextAnswer(ans) ==
    \E s \in Labels : ans = Answer(s, <<>>, <<>>, <<>>, <<>>, <<>>)

IsBoxAnswer(ans) ==
    \E k \in 0..MaxRegions : \E rs \in [1..k -> AnswerBoxes \X AnswerLabels] :
        ans = Answer(<<>>, [i \in 1..k |-> rs[i][1]], [i \in 1..k |-> rs[i][2]],
                     <<>>, <<>>, <<>>)

IsPolygonAnswer(ans) ==
    \E k \in 0..MaxRegions : \E g \in [1..k -> SomePolygons] :
        \E ls \in {<<>>, <<(<<>>)>>, <<(<<"a">>)>>} :
            ans = Answer(<<>>, <<>>, ls, <<g>>, <<>>, <<>>)

IsOpenVocabularyAnswer(ans) ==
    \E k \in 0..MaxRegions : \E rs \in [1..k -> AnswerBoxes \X AnswerLabels] :
        ans = Answer(<<>>, [i \in 1..k |-> rs[i][1]], <<>>, <<>>, <<>>,
                     [i \in 1..k |-> rs[i][2]])

IsQuadAnswer(ans) ==
    \E k \in 0..MaxRegions : \E rs \in [1..k -> AnswerBoxes \X AnswerLabels] :
        ans = Answer(<<>>, <<>>, [i \in 1..k |-> rs[i][2]], <<>>,
                     [i \in 1..k |-> QuadOf(rs[i][1])], <<>>)

\* A task and what the backend answers to it; the backend is not asked
\* when the task is none of the branches.
IsTaskInput ==
    \/ task \in TextTasks \cup {"OCR"} /\ IsTextAnswer(answer)
    \/ task \in BoxTasks /\ IsBoxAnswer(answer)
    \/ task \in PolygonTasks /\ IsPolygonAnswer(answer)
    \/ task = "open vocabulary detection" /\ IsOpenVocabularyAnswer(answer)
    \/ task = "OCR with region" /\ IsQuadAnswer(answer)
    \/ task \in UnlistedTasks /\ answer = Answer(<<>>, <<>>, <<>>, <<>>, <<>>, <<>>)

\* The output of a loader whose load of some version went through.
IsLoaderOutput(F2) ==
    \E v \in Versions : \E by \in {"AutoProcessor", "AutoTokenizer"} :
        F2 = Fields(from_pretrained("AutoModelForCausalLM", v),
                    from_pretrained(by, v), v)

\* Florence2.apply; a returned F_BBOXES goes to the postprocessing nodes.
Florence2 ==
    /\ applied = NotApplied
    /\ applied' = Florence2_apply(task, fill_mask, answer)
    /\ florence2' = unload_model(FLORENCE2)
    /\ F_BBOXES' = IF applied'.raised = "" THEN applied'.F_BBOXES ELSE F_BBOXES
    /\ UNCHANGED <<task, fill_mask, FLORENCE2, answer, index, node, out, loaderVars>>

NextFlorence2 ==
    \/ Florence2
    \/ applied.raised = "" /\ Florence2Postprocess
    \/ applied.raised = "" /\ Florence2PostprocessAll

InitFlorence2 ==
    /\ IsTaskInput
    /\ fill_mask \in BOOLEAN
    /\ IsLoaderOutput(FLORENCE2)
    /\ florence2 = NoFields
    /\ applied = NotApplied
    /\ F_BBOXES = Str(<<>>)
    /\ index = 0
    /\ node = "none"
    /\ out = NoOutput
    /\ LoaderUnused

SpecFlorence2 == InitFlorence2 /\ [][NextFlorence2]_vars

----------------------------------------------------------------------------
(* The LoadFlorence2Model node, called again and again                     *)

LoadFlorence2Model ==
    /\ \E version \in Versions :
       \E exists \in BOOLEAN, download_ok \in BOOLEAN, processor_ok \in BOOLEAN,
          model_ok \in BOOLEAN, model_again_ok \in BOOLEAN, tokenizer_ok \in BOOLEAN :
           LET call == load(loader, version, exists, download_ok, processor_ok,
                            model_ok, model_again_ok, tokenizer_ok)
           IN  /\ loaded' = Outcome(call, version)
               /\ loader' = call.self
    /\ UNCHANGED <<F_BBOXES, index, node, out, florence2Vars>>

InitLoad ==
    /\ loader = NoFields
    /\ loaded = NotLoaded
    /\ F_BBOXES = Str(<<>>)
    /\ index = 0
    /\ node = "none"
    /\ out = NoOutput
    /\ Florence2Unused

SpecLoad == InitLoad /\ [][LoadFlorence2Model]_vars

----------------------------------------------------------------------------
(* Vocabulary of the properties                                            *)

\* The pixels of a mask.
Pixels(mask) == (0..(mask.rows - 1)) \X (0..(mask.cols - 1))

\* A mask of the given size with no pixel set.
IsZeroMask(mask, rows, cols) ==
    mask.rows = rows /\ mask.cols = cols /\ mask.ones = {} /\ mask.polys = {}

\* The four <loc_N> codes of a location string.
IsLocString(loc_string, a, b, c, d) ==
    loc_string = << <<"loc", a>>, <<"loc", b>>, <<"loc", c>>, <<"loc", d>> >>

\* The least and greatest x and y of a box, as numbers.
XMinOf(b) == IF Len(b) = 4 THEN b[1] ELSE SetMin({b[1], b[3], b[5], b[7]})

YMinOf(b) == IF Len(b) = 4 THEN b[2] ELSE SetMin({b[2], b[4], b[6], b[8]})

XMaxOf(b) == IF Len(b) = 4 THEN b[3] ELSE SetMax({b[1], b[3], b[5], b[7]})

YMaxOf(b) == IF Len(b) = 4 THEN b[4] ELSE SetMax({b[2], b[4], b[6], b[8]})

BoxesOf(F) == {F.bboxes[i] : i \in 1..Len(F.bboxes)}

Returned == out.raised = ""

----------------------------------------------------------------------------
(* C1: for a box-form result and an index in range whose box is            *)
(* [x1, y1, x2, y2] with whole-number coordinates, 0 <= x1 <= x2 <= width  *)
(* and 0 <= y1 <= y2 <= height, Florence2Postprocess.apply returns x = x1, *)
(* y = y1, width = x2 - x1 + 1, height = y2 - y1 + 1 and a mask that is 1  *)
(* exactly at the pixels (r, c) with y1 <= r < y2 and x1 <= c < x2.        *)

C1_Case ==
    /\ node = "Florence2Postprocess"
    /\ F_BBOXES.kind = "bboxes"
    /\ index < Len(F_BBOXES.bboxes)
    /\ LET b == F_BBOXES.bboxes[index + 1]
       IN  /\ Len(b) = 4
           /\ \A i \in 1..4 : b[i] % 2 = 0
           /\ 0 <= b[1] /\ b[1] <= b[3] /\ b[3] <= Num(F_BBOXES.width)
           /\ 0 <= b[2] /\ b[2] <= b[4] /\ b[4] <= Num(F_BBOXES.height)

C1_BoxGeometry ==
    C1_Case =>
        LET b == F_BBOXES.bboxes[index + 1]
        IN  /\ Returned
            /\ Num(out.x) = b[1]
            /\ Num(out.y) = b[2]
            /\ Num(out.width) = b[3] - b[1] + Num(1)
            /\ Num(out.height) = b[4] - b[2] + Num(1)
            /\ out.mask.rows = F_BBOXES.height
            /\ out.mask.cols = F_BBOXES.width
            /\ out.mask.polys = {}
            /\ out.mask.ones \subseteq Pixels(out.mask)
            /\ \A px \in Pixels(out.mask) :
                  px \in out.mask.ones <=>
                      /\ b[2] <= Num(px[1]) /\ Num(px[1]) < b[4]
                      /\ b[1] <= Num(px[2]) /\ Num(px[2]) < b[3]

\* A later region is selected, its box reaches the right and bottom edges
\* of the image and covers some pixel.
C1_Witness ==
    /\ C1_Case
    /\ index > 0
    /\ F_BBOXES.bboxes[index + 1][3] = Num(F_BBOXES.width)
    /\ F_BBOXES.bboxes[index + 1][4] = Num(F_BBOXES.height)
    /\ out.mask.ones # {}
    /\ out.x > 0

----------------------------------------------------------------------------
(* C2: for a box-form result with at least one box, every box of 4 or 8    *)
(* coordinates inside the image, Florence2PostprocessAll.apply returns the *)
(* union of the boxes, whatever their order.                               *)

C2_Case ==
    /\ node = "Florence2PostprocessAll"
    /\ F_BBOXES.kind = "bboxes"
    /\ Len(F_BBOXES.bboxes) >= 1
    /\ \A b \in BoxesOf(F_BBOXES) :
          /\ Len(b) \in {4, 8}
          /\ 0 <= XMinOf(b) /\ XMaxOf(b) <= Num(F_BBOXES.width)
          /\ 0 <= YMinOf(b) /\ YMaxOf(b) <= Num(F_BBOXES.height)
          /\ XMinOf(b) <= XMaxOf(b) /\ YMinOf(b) <= YMaxOf(b)

\* C2 as stated: x and y are the minima themselves, width and height reach
\* the maxima themselves, and a pixel is 1 exactly when it lies between the
\* bounds of some box.
C2_UnionAsStated ==
    C2_Case =>
        LET B == BoxesOf(F_BBOXES)
        IN  /\ Returned
            /\ Num(out.x) = SetMin({XMinOf(b) : b \in B})
            /\ Num(out.y) = SetMin({YMinOf(b) : b \in B})
            /\ Num(out.width) = SetMax({XMaxOf(b) : b \in B}) - Num(out.x) + Num(1)
            /\ Num(out.height) = SetMax({YMaxOf(b) : b \in B}) - Num(out.y) + Num(1)
            /\ out.mask.polys = {}
            /\ out.mask.ones \subseteq Pixels(out.mask)
            /\ \A px \in Pixels(out.mask) :
                  px \in out.mask.ones <=>
                      \E b \in B :
                          /\ YMinOf(b) <= Num(px[1]) /\ Num(px[1]) < YMaxOf(b)
                          /\ XMinOf(b) <= Num(px[2]) /\ Num(px[2]) < XMaxOf(b)

\* C2 as amended: the same with every bound replaced by its integer part:
\* x = int(least x-minimum), y = int(least y-minimum),
\* width = int(greatest x-maximum) - x + 1,
\* height = int(greatest y-maximum) - y + 1, and a pixel (r, c) is 1 exactly
\* when int(y-min) <= r < int(y-max) and int(x-min) <= c < int(x-max) for
\* some box; the result does not depend on the order of the boxes.
C2_UnionBounds ==
    C2_Case =>
        LET B == BoxesOf(F_BBOXES)
        IN  /\ Returned
            /\ out.x = int(SetMin({XMinOf(b) : b \in B}))
            /\ out.y = int(SetMin({YMinOf(b) : b \in B}))
            /\ out.width = int(SetMax({XMaxOf(b) : b \in B})) - out.x + 1
            /\ out.height = int(SetMax({YMaxOf(b) : b \in B})) - out.y + 1
            /\ out.mask.rows = F_BBOXES.height
            /\ out.mask.cols = F_BBOXES.width
            /\ out.mask.polys = {}
            /\ out.mask.ones \subseteq Pixels(out.mask)
            /\ \A px \in Pixels(out.mask) :
                  px \in out.mask.ones <=>
                      \E b \in B :
                          /\ int(YMinOf(b)) <= px[1] /\ px[1] < int(YMaxOf(b))
                          /\ int(XMinOf(b)) <= px[2] /\ px[2] < int(XMaxOf(b))

\* Two boxes apart from each other, the right-hand one first and given by
\* its four corners on pixel centres, the other of 4 coordinates; the union
\* covers two pixels.
C2_Witness ==
    /\ C2_Case
    /\ Len(F_BBOXES.bboxes) = 2
    /\ Len(F_BBOXES.bboxes[1]) = 8
    /\ Len(F_BBOXES.bboxes[2]) = 4
    /\ XMaxOf(F_BBOXES.bboxes[2]) <= XMinOf(F_BBOXES.bboxes[1])
    /\ Cardinality(out.mask.ones) = 2

----------------------------------------------------------------------------
(* C3: whenever either node returns for a structured result whose          *)
(* coordinates lie inside the image, the location string is                *)
(* <loc_A><loc_B><loc_C><loc_D> with A = x1 * 999 // image width,          *)
(* B = y1 * 999 // image height, C = x2 * 999 // image width and           *)
(* D = y2 * 999 // image height over the returned bounds (x1 = x, y1 = y,  *)
(* x2 = x + width - 1, y2 = y + height - 1), and A, B, C, D are integers   *)
(* of 0..999.                                                              *)

C3_Case ==
    /\ node # "none"
    /\ F_BBOXES.kind # "str"
    /\ Returned

C3_LocString ==
    C3_Case =>
        LET x2 == out.x + out.width - 1
            y2 == out.y + out.height - 1
            A  == (out.x * 999) \div F_BBOXES.width
            B  == (out.y * 999) \div F_BBOXES.height
            C  == (x2 * 999) \div F_BBOXES.width
            D  == (y2 * 999) \div F_BBOXES.height
        IN  /\ IsLocString(out.loc_string, A, B, C, D)
            /\ {A, B, C, D} \subseteq 0..999

\* A polygon whose bounds start inside the image and end at its far corner.
C3_Witness ==
    /\ C3_Case
    /\ F_BBOXES.kind = "polygons"
    /\ out.mask.polys # {}
    /\ out.x > 0 /\ out.y > 0
    /\ out.loc_string[1][2] \in 1..998
    /\ out.loc_string[3][2] = 999
    /\ out.loc_string[4][2] = 999

----------------------------------------------------------------------------
(* C4: for a string input s both nodes return, for every index, an         *)
(* all-zero 512 x 512 mask, the label s, an empty location string and      *)
(* width = height = x = y = 0.                                             *)

C4_Case ==
    /\ node # "none"
    /\ F_BBOXES.kind = "str"

C4_StringFallback ==
    C4_Case =>
        /\ Returned
        /\ IsZeroMask(out.mask, 512, 512)
        /\ out.label = F_BBOXES.text
        /\ out.loc_string = <<>>
        /\ out.width = 0 /\ out.height = 0 /\ out.x = 0 /\ out.y = 0

\* A string that starts with the end marker, and an index other than 0.
C4_Witness ==
    /\ C4_Case
    /\ node = "Florence2Postprocess"
    /\ index > 0
    /\ StartsWith(F_BBOXES.text, EndMarker)
    /\ Len(out.label) > Len(EndMarker)

----------------------------------------------------------------------------
(* C5: for a structured result (box-form with as many labels as boxes, or  *)
(* polygon-form) and an index not below the number of regions,             *)
(* Florence2Postprocess.apply returns an all-zero mask of the image's      *)
(* size, the label "", the location string <loc_0><loc_0><loc_0><loc_0>,   *)
(* x = y = 0 and width = height = 1.                                       *)

RegionsOf(F) ==
    IF F.kind = "bboxes" THEN Len(F.bboxes) ELSE Len(F.polygons[1])

C5_Case ==
    /\ node = "Florence2Postprocess"
    /\ F_BBOXES.kind # "str"
    /\ F_BBOXES.kind = "bboxes" => Len(F_BBOXES.labels) = Len(F_BBOXES.bboxes)
    /\ index >= RegionsOf(F_BBOXES)

C5_OutOfRange ==
    C5_Case =>
        /\ Returned
        /\ IsZeroMask(out.mask, F_BBOXES.height, F_BBOXES.width)
        /\ out.label = <<>>
        /\ IsLocString(out.loc_string, 0, 0, 0, 0)
        /\ out.x = 0 /\ out.y = 0 /\ out.width = 1 /\ out.height = 1

\* The index just past the last of several labelled boxes.
C5_Witness ==
    /\ C5_Case
    /\ F_BBOXES.kind = "bboxes"
    /\ index = Len(F_BBOXES.bboxes)
    /\ index > 1
    /\ Len(F_BBOXES.bboxes[index]) = 4
    /\ F_BBOXES.labels[index] # <<>>

----------------------------------------------------------------------------
(* C6: a box of 8 coordinates gives, in both nodes, the outputs of the box *)
(* of 4 coordinates [least x, least y, greatest x, greatest y] with the    *)
(* same label and image size, whatever the order of its corner points.     *)

AsBox4(b) ==
    IF Len(b) = 8 THEN <<XMinOf(b), YMinOf(b), XMaxOf(b), YMaxOf(b)>> ELSE b

WithBoxes4(F) ==
    [F EXCEPT !.bboxes = [i \in 1..Len(F.bboxes) |-> AsBox4(F.bboxes[i])]]

C6_Case ==
    /\ node # "none"
    /\ F_BBOXES.kind = "bboxes"
    /\ \E b \in BoxesOf(F_BBOXES) : Len(b) = 8

C6_QuadAsBox ==
    C6_Case =>
        /\ node = "Florence2Postprocess" =>
              out = Florence2Postprocess_apply(WithBoxes4(F_BBOXES), index)
        /\ node = "Florence2PostprocessAll" =>
              out = Florence2PostprocessAll_apply(WithBoxes4(F_BBOXES))

\* A quadrilateral whose first corner is neither its least nor its greatest
\* corner and which covers more than one pixel.
C6_Witness ==
    /\ C6_Case
    /\ node = "Florence2PostprocessAll"
    /\ Len(F_BBOXES.bboxes) = 1
    /\ LET b == F_BBOXES.bboxes[1]
       IN  /\ b[1] > XMinOf(b) /\ b[2] < YMaxOf(b)
           /\ b[3] < b[1] /\ b[4] > b[2]
           /\ b[5] > b[1]
    /\ Cardinality(out.mask.ones) > 1

----------------------------------------------------------------------------
(* C7: for a polygon-form result whose single polygon has fewer than 3     *)
(* points, Florence2Postprocess.apply (index 0) and                        *)
(* Florence2PostprocessAll.apply return, the mask is entirely zero, and    *)
(* the other outputs are those of the empty-geometry case: label "",       *)
(* location string <loc_0><loc_0><loc_0><loc_0>, x = y = 0 and             *)
(* width = height = 1.                                                     *)

C7_Case ==
    /\ node # "none"
    /\ F_BBOXES.kind = "polygons"
    /\ Len(F_BBOXES.polygons[1]) = 1
    /\ NumPoints(F_BBOXES.polygons[1][1]) < 3
    /\ node = "Florence2Postprocess" => index = 0

C7_InvalidPolygon ==
    C7_Case =>
        /\ Returned
        /\ IsZeroMask(out.mask, F_BBOXES.height, F_BBOXES.width)
        /\ out.label = <<>>
        /\ IsLocString(out.loc_string, 0, 0, 0, 0)
        /\ out.x = 0 /\ out.y = 0 /\ out.width = 1 /\ out.height = 1

----------------------------------------------------------------------------
(* C9: in Florence2PostprocessAll.apply on a box-form result, a box whose  *)
(* coordinate count is neither 4 nor 8 is skipped entirely: mask, union    *)
(* bounds and label are those of the result without that box and its       *)
(* label.                                                                  *)

Without(seq, i) == [j \in 1..(Len(seq) - 1) |-> IF j < i THEN seq[j] ELSE seq[j + 1]]

WithoutRegion(F, i) ==
    [F EXCEPT !.bboxes = Without(F.bboxes, i), !.labels = Without(F.labels, i)]

C9_Case ==
    /\ node = "Florence2PostprocessAll"
    /\ F_BBOXES.kind = "bboxes"

C9_SkippedEntirely ==
    C9_Case =>
        \A i \in 1..Len(F_BBOXES.bboxes) :
            Len(F_BBOXES.bboxes[i]) \notin {4, 8} =>
                LET rest == Florence2PostprocessAll_apply(WithoutRegion(F_BBOXES, i))
                IN  /\ out.mask = rest.mask
                    /\ out.x = rest.x /\ out.y = rest.y
                    /\ out.width = rest.width /\ out.height = rest.height
                    /\ out.label = rest.label

----------------------------------------------------------------------------
(* C10: in Florence2PostprocessAll.apply on a box-form result, the label   *)
(* is the ", "-joined sequence, in box order, of exactly the marker-       *)
(* stripped labels not already contained in the label accumulated so far;  *)
(* it never starts with a separator and has no empty field between         *)
(* separators.                                                             *)

RECURSIVE Join(_)
Join(fields) ==
    IF fields = <<>> THEN <<>>
    ELSE IF Len(fields) = 1 THEN fields[1]
    ELSE fields[1] \o Separator \o Join(Tail(fields))

\* The labels kept out of ls, given the fields kept so far.
RECURSIVE KeptLabels(_, _)
KeptLabels(ls, kept) ==
    IF ls = <<>> THEN kept
    ELSE LET l == removeprefix(Head(ls), EndMarker)
         IN  IF Contains(l, Join(kept))
             THEN KeptLabels(Tail(ls), kept)
             ELSE KeptLabels(Tail(ls), Append(kept, l))

C10_Case ==
    /\ node = "Florence2PostprocessAll"
    /\ F_BBOXES.kind = "bboxes"

C10_JoinedLabel ==
    C10_Case =>
        /\ Returned
        /\ out.label = Join(KeptLabels(F_BBOXES.labels, <<>>))
        /\ ~StartsWith(out.label, Separator)
        /\ ~Contains(Separator \o Separator, out.label)

----------------------------------------------------------------------------
(* C11: for every task string, listed in TASK_OPTIONS or not, and a        *)
(* backend that succeeds, Florence2.process_image returns a (result,       *)
(* preview image or None) pair, so Florence2.apply returns its (preview,   *)
(* string, F_BBOXES) triple instead of raising; an unlisted task gives     *)
(* ("", None).                                                             *)

C11_Case == applied # NotApplied

C11_ReturnsTriple ==
    C11_Case =>
        /\ process_image(task, fill_mask, answer).ends = "pair"
        /\ applied.raised = ""
        /\ task \notin ListedTasks =>
               process_image(task, fill_mask, answer) = Pair(Str(<<>>), NoPicture)

----------------------------------------------------------------------------
(* C12: after any sequence of load(version) calls on one loader, each      *)
(* loading step succeeding or raising on its own, every call that returns  *)
(* normally returns a model and a processor that were both loaded from the *)
(* path of the returned version; a failed load of another version never    *)
(* leaves behind a processor and a model of different versions that a      *)
(* later load returns.                                                     *)

C12_Case == loaded.raised = ""

C12_LoadedFromReturnedVersion ==
    C12_Case =>
        /\ loaded.FLORENCE2.version \in Versions
        /\ loaded.FLORENCE2.model =
               from_pretrained("AutoModelForCausalLM", loaded.FLORENCE2.version)
        /\ loaded.FLORENCE2.processor \in
               {from_pretrained(by, loaded.FLORENCE2.version) :
                    by \in {"AutoProcessor", "AutoTokenizer"}}

====
